---- MODULE Spec2Model ----
(***************************************************************************)
(* deltaimage: the diff/apply engine of src/main.rs and the metadata       *)
(* helpers of src/utils.rs, as a state machine over a small POSIX tree.    *)
(*                                                                         *)
(* One behaviour is one run of `deltaimage diff S T` followed, when diff   *)
(* succeeded, by one run of `deltaimage apply S T`.  Every iteration of a  *)
(* loop of diff() or apply() is one action, so that the tree a fatal error *)
(* leaves behind is a state of the model.  Between the two runs one patch  *)
(* file may arrive damaged, which is how apply meets a patch that does not *)
(* decode.                                                                 *)
(*                                                                         *)
(* Assumptions of the model: the target tree holds no entry named          *)
(* __deltaimage.meta.json before diff, nothing else touches the trees      *)
(* while the engine runs, and I/O primitives fail only on a path that does *)
(* not exist.                                                              *)
(***************************************************************************)
EXTENDS Integers, Sequences, FiniteSets, TLC

\* Largest file content of the model: contents are 0..MaxByte, 0 the empty file.
MaxByte == 1

Bytes == 0..MaxByte
\* xdelta3's None (Option<Vec<u8>>), and "no regular file at this path".
FAIL == 0 - 2
NoFile == 0 - 1
\* No mtime recorded (a vacant HashMap entry).
NoTime == 0 - 1

\* Relative paths are sequences of components, as PathBuf::components().
Files == {<<"a">>, <<"d", "b">>, <<"d", "c">>, <<"e">>}
Dirs == {<< >>, <<"d">>}
InoIds == 1..Cardinality(Files)

Parent(p) == SubSeq(p, 1, Len(p) - 1)

\* Byte order of the path components used (Vec<u8> comparison).
CompRank(c) ==
    CASE c = "a" -> 1 [] c = "b" -> 2 [] c = "c" -> 3 [] c = "d" -> 4 [] c = "e" -> 5

RECURSIVE PathLess(_, _)
PathLess(p, q) ==
    IF p = << >> THEN q # << >>
    ELSE IF q = << >> THEN FALSE
    ELSE IF Head(p) = Head(q) THEN PathLess(Tail(p), Tail(q))
    ELSE CompRank(Head(p)) < CompRank(Head(q))

\* #[derive(Ord)] on enum Algo: variants compare in declaration order.
AlgoRank(a) == IF a = "XDelta3" THEN 0 ELSE 1

\* Ord of (Algo, Vec<u8>): the tag first, then the path.
ChangeLess(x, y) ==
    \/ AlgoRank(x[1]) < AlgoRank(y[1])
    \/ AlgoRank(x[1]) = AlgoRank(y[1]) /\ PathLess(x[2], y[2])

\* Path::is_absolute and Path::join: joining an absolute path replaces the base.
IsAbsolute(path) == path # << >> /\ Head(path) = "/"
Join(base, path) == IF IsAbsolute(path) THEN path ELSE base \o path

\* utils::drop_components: skip the first nr components.
drop_components(nr, path) == SubSeq(path, nr + 1, Len(path))

VARIABLES
    src,          \* source tree: Files -> content, or NoFile
    target_dir,   \* the target_delta_dir argument, as components
    fault,        \* how the patch codec misbehaves on content MaxByte
    fs,           \* the target tree: dent, ino, dmt, now
    manifest,     \* __deltaimage.meta.json at the target root, or NoManifest
    pre,          \* the target tree as it was before diff
    tampered,     \* the patch file damaged between diff and apply, or NoPath
    dmt0,         \* directory mtimes when the running pass started
    pc, err, errPath,
    orig_files, pgroup, slot, save, visited, fstate, changes, keep_files,
    md, a_changes, kidx, groups, gtodo, recreated

envVars == <<src, target_dir, fault, pre, tampered>>
diffVars == <<orig_files, pgroup, slot, visited, fstate, changes, keep_files>>
applyVars == <<md, a_changes, kidx, groups, gtodo, recreated>>
vars == <<envVars, fs, manifest, dmt0, pc, err, errPath, save, diffVars, applyVars>>

(***************************** the filesystem ******************************)

FreeInode == [content |-> NoFile, mtime |-> 0, mode |-> 0, uid |-> 0, gid |-> 0,
              xattrs |-> {}]

\* A file created by std::fs::write: owned by the caller (root), mode 0644.
NewInode(data, now) == [content |-> data, mtime |-> now, mode |-> 420, uid |-> 0,
                        gid |-> 0, xattrs |-> {}]

NLink(f, i) == Cardinality({p \in Files : f.dent[p] = i})
IsFile(f, p) == f.dent[p] # 0
Content(f, p) == f.ino[f.dent[p]].content

FreshIno(f) ==
    CHOOSE i \in InoIds :
        /\ \A p \in Files : f.dent[p] # i
        /\ \A j \in InoIds : j < i => \E p \in Files : f.dent[p] = j

\* unlink(2): the entry goes, the inode with its last link; the parent's mtime moves.
RemoveFile(f, p) ==
    LET i == f.dent[p] IN
    [f EXCEPT !.dent[p] = 0,
              !.ino[i] = IF NLink(f, i) = 1 THEN FreeInode ELSE @,
              !.dmt[Parent(p)] = f.now,
              !.now = f.now + 1]

\* std::fs::write: truncate in place when the path exists (every link sees it),
\* create a new inode (and touch the parent) when it does not.
WriteFile(f, p, data) ==
    IF f.dent[p] # 0
    THEN [f EXCEPT !.ino[f.dent[p]].content = data,
                   !.ino[f.dent[p]].mtime = f.now,
                   !.now = f.now + 1]
    ELSE LET i == FreshIno(f) IN
         [f EXCEPT !.dent[p] = i,
                   !.ino[i] = NewInode(data, f.now),
                   !.dmt[Parent(p)] = f.now,
                   !.now = f.now + 1]

\* link(2) of an existing file `from` at the free path `to`.
HardLink(f, from, to) ==
    [f EXCEPT !.dent[to] = f.dent[from],
              !.dmt[Parent(to)] = f.now,
              !.now = f.now + 1]

\* setuid (04000) and setgid (02000) dropped, as chown and setxattr do.
ClearSuid(mode) == mode % 1024

\* utils::get_meta_data
get_meta_data(f, p) ==
    LET n == f.ino[f.dent[p]] IN
    [mtime |-> n.mtime, mode |-> n.mode, uid |-> n.uid, gid |-> n.gid,
     xattrs |-> n.xattrs, ino |-> f.dent[p]]

Chown(n, uid, gid) == [n EXCEPT !.uid = uid, !.gid = gid, !.mode = ClearSuid(n.mode)]
SetFileTimes(n, t) == [n EXCEPT !.mtime = t]
SetXattr(n, k, v) ==
    [n EXCEPT !.xattrs = {e \in n.xattrs : e[1] # k} \cup {<<k, v>>},
              !.mode = ClearSuid(n.mode)]
SetPermissions(n, mode) == [n EXCEPT !.mode = mode]

RECURSIVE SetXattrs(_, _)
SetXattrs(n, xs) ==
    IF xs = {} THEN n
    ELSE LET e == CHOOSE e \in xs : TRUE IN SetXattrs(SetXattr(n, e[1], e[2]), xs \ {e})

\* Mutant: the mode bits are set first, before chown and the xattrs.
SetMetaChmodFirst(n, m) ==
    SetXattrs(SetFileTimes(Chown(SetPermissions(n, m.mode), m.uid, m.gid), m.mtime),
              m.xattrs)

\* Mutant: the xattrs are written last, after the mode bits.
SetMetaXattrsLast(n, m) ==
    SetXattrs(SetPermissions(SetFileTimes(Chown(n, m.uid, m.gid), m.mtime), m.mode),
              m.xattrs)

\* utils::set_meta_data: chown, mtime, xattrs, then the mode bits.
SetMeta(n, m) ==
    SetPermissions(SetXattrs(SetFileTimes(Chown(n, m.uid, m.gid), m.mtime), m.xattrs),
                   m.mode)
set_meta_data(f, p, m) == [f EXCEPT !.ino[f.dent[p]] = SetMeta(@, m)]

\* The semantic metadata of the file at p (what must survive the round trip).
MetaOf(f, p) ==
    LET n == f.ino[f.dent[p]] IN
    [mtime |-> n.mtime, mode |-> n.mode, uid |-> n.uid, gid |-> n.gid,
     xattrs |-> n.xattrs]

(******************************* the codec *********************************)

\* A patch is a content beyond the plain ones, naming the old and the new bytes.
IsPatch(x) == x > MaxByte
PatchOf(new, old) == (MaxByte + 1) + old * (MaxByte + 1) + new
PatchNew(x) == (x - (MaxByte + 1)) % (MaxByte + 1)
PatchOld(x) == (x - (MaxByte + 1)) \div (MaxByte + 1)

\* xdelta3::encode(new, old)
Encode(new, old) ==
    IF fault = "encfail" /\ new = MaxByte THEN FAIL ELSE PatchOf(new, old)

\* xdelta3::decode(patch, old)
Decode(patch, old) ==
    IF ~IsPatch(patch) \/ PatchOld(patch) # old THEN FAIL
    ELSE IF fault = "decfail" /\ PatchNew(patch) = MaxByte THEN FAIL
    ELSE IF fault = "decwrong" /\ PatchNew(patch) = MaxByte
         THEN (PatchNew(patch) + 1) % (MaxByte + 1)
    ELSE PatchNew(patch)

(**************************** initial states *******************************)

NoPath == << >>
NoManifest == [present |-> FALSE, keep_files |-> << >>, changes |-> << >>]

\* The metadata the target's i-th inode starts with: distinct per inode, and
\* distinct from what a newly created file gets (04755, 0600, 02755).
InitInode(i, data) ==
    [content |-> data, mtime |-> i,
     mode |-> CASE i = 1 -> 2541 [] i = 2 -> 384 [] OTHER -> 1517,
     uid |-> 1000 + i, gid |-> 100 + i,
     xattrs |-> IF i = 1 THEN {<<"security.capability", 7>>, <<"user.k", 1>>}
                ELSE IF i = 2 THEN {<<"user.k", 2>>} ELSE {}]

Used(d, i) == \E p \in Files : d[p] = i

\* Inode numbers are named in the order the paths first use them.
Canonical(d) ==
    \A i \in InoIds :
        (i > 1 /\ Used(d, i)) =>
            \E q \in Files : d[q] = i - 1 /\ \A p \in Files : d[p] = i => PathLess(q, p)

\* Runs that differ only in a codec fault no file can trigger, or in how
\* target_dir is written when no link group has two matched members, are the
\* same run: one of each is kept.
FaultMatters(s, f) ==
    \E p \in Files : IsFile(f, p) /\ s[p] # NoFile /\ Content(f, p) = MaxByte
                      /\ s[p] # MaxByte
DirMatters(s, f) ==
    \E p, q \in Files : /\ p # q /\ IsFile(f, p) /\ f.dent[p] = f.dent[q]
                         /\ s[p] # NoFile /\ s[q] # NoFile

\* The state diff starts in, whatever the trees.
Start ==
    /\ pre = fs
    /\ tampered = NoPath
    /\ dmt0 = fs.dmt
    /\ manifest = NoManifest
    /\ pc = "d_scan"
    /\ err = ""
    /\ errPath = NoPath
    /\ orig_files = {}
    /\ pgroup = [p \in Files |-> 0]
    /\ slot = [i \in InoIds |-> NoPath]
    /\ save = [x \in Dirs |-> NoTime]
    /\ visited = {}
    /\ fstate = [p \in Files |-> "Untouched"]
    /\ changes = << >>
    /\ keep_files = << >>
    /\ md = NoManifest
    /\ a_changes = {}
    /\ kidx = 1
    /\ groups = [i \in InoIds |-> << >>]
    /\ gtodo = {}
    /\ recreated = {}

\* The trees of the main specification: any target over the first three
\* paths, any source over them.
Init ==
    /\ src \in [Files -> Bytes \cup {NoFile}]
    /\ src[<<"e">>] = NoFile
    /\ \E d \in [Files -> {0} \cup InoIds] : \E c \in [InoIds -> Bytes] :
          /\ d[<<"e">>] = 0
          /\ Canonical(d)
          /\ \A i \in InoIds : ~Used(d, i) => c[i] = 0
          /\ fs = [dent |-> d,
                   ino |-> [i \in InoIds |->
                              IF Used(d, i) THEN InitInode(i, c[i]) ELSE FreeInode],
                   dmt |-> [x \in Dirs |-> Len(x) + 1],
                   now |-> 10]
    /\ target_dir \in {<<"/", "delta">>, <<"delta">>}
    /\ target_dir = <<"delta">> => DirMatters(src, fs)
    /\ fault \in {"none", "encfail", "decfail", "decwrong"}
    /\ fault # "none" => FaultMatters(src, fs)
    /\ Start

\* The trees of the second specification: a target whose four files are two
\* link groups, {a, e} and {d/b, d/c}, over a source that has a, d/b and d/c
\* and may have e; absolute target_dir, a codec without fault.
InitGroups ==
    /\ src \in [Files -> Bytes \cup {NoFile}]
    /\ \A p \in Files \ {<<"e">>} : src[p] # NoFile
    /\ \E c \in [{1, 2} -> Bytes] :
          fs = [dent |-> [p \in Files |-> IF Len(p) = 1 THEN 1 ELSE 2],
                ino |-> [i \in InoIds |->
                           IF i <= 2 THEN InitInode(i, c[i]) ELSE FreeInode],
                dmt |-> [x \in Dirs |-> Len(x) + 1],
                now |-> 10]
    /\ target_dir = <<"/", "delta">>
    /\ fault = "none"
    /\ Start

(********************************* diff ************************************)

\* The walker hands out target_dir joined with the entry's relative path.
WalkPath(p) == target_dir \o p
RelPath(p) == drop_components(Len(target_dir), WalkPath(p))
TargetPath(p) == Join(target_dir, RelPath(p))

\* What a path given to the filesystem names: a file of the tree, or nothing.
Exists(f, path) == \E r \in Files : path = target_dir \o r /\ IsFile(f, r)
Resolve(path) == CHOOSE r \in Files : path = target_dir \o r

InSubtree(p, d) == Len(p) > Len(d) /\ SubSeq(p, 1, Len(d)) = d

\* WalkDir is depth first: once inside a directory it finishes it.
WalkAllows(p) ==
    \A d \in Dirs \ {<< >>} :
        (\E q, r \in Files :
            /\ InSubtree(q, d) /\ InSubtree(r, d)
            /\ IsFile(fs, q) /\ IsFile(fs, r)
            /\ q \in visited /\ r \notin visited)
        => InSubtree(p, d)

\* Phase 1: orig_files, the regular files of the source tree.
DiffScanSource ==
    /\ pc = "d_scan"
    /\ orig_files' = {p \in Files : src[p] # NoFile}
    /\ pc' = "d_group"
    /\ UNCHANGED <<envVars, fs, manifest, dmt0, err, errPath, save, pgroup, slot,
                   visited, fstate, changes, keep_files, applyVars>>

\* Mutant: only inodes with three links or more are grouped.
InLinkGroupThree(f, p) == IsFile(f, p) /\ NLink(f, f.dent[p]) >= 3

\* metadata.nlink() >= 2
InLinkGroup(f, p) == IsFile(f, p) /\ NLink(f, f.dent[p]) >= 2

\* Phase 2: one empty representative slot per (ino, dev) with two links or more.
DiffGroupLinks ==
    /\ pc = "d_group"
    /\ pgroup' = [p \in Files |-> IF InLinkGroup(fs, p) THEN fs.dent[p] ELSE 0]
    /\ slot' = [i \in InoIds |-> NoPath]
    /\ pc' = "d_walk"
    /\ UNCHANGED <<envVars, fs, manifest, dmt0, err, errPath, save, orig_files,
                   visited, fstate, changes, keep_files, applyVars>>

\* parent_modtime_save.entry(parent): recorded once, at the first edit below it.
ParentSave(s, f, p) ==
    IF s[Parent(p)] # NoTime THEN s ELSE [s EXCEPT ![Parent(p)] = f.dmt[Parent(p)]]

DiffEntry(p) ==
    /\ pc = "d_walk"
    /\ IsFile(fs, p)
    /\ p \notin visited
    /\ WalkAllows(p)

\* orig_files.remove(&rel_path) returned false: a target-only file.
DiffUntouched(p) ==
    /\ DiffEntry(p)
    /\ RelPath(p) \notin orig_files
    /\ visited' = visited \cup {p}
    /\ UNCHANGED <<envVars, fs, manifest, dmt0, pc, err, errPath, save, orig_files,
                   pgroup, slot, fstate, changes, keep_files, applyVars>>

\* Mutant: the representative slot is never consulted.
HasRepresentativeNever(p) == FALSE

HasRepresentative(p) == pgroup[p] # 0 /\ slot[pgroup[p]] # NoPath

\* The path hard_link is given for the group's representative.
OtherPath(p) == Join(target_dir, slot[pgroup[p]])

\* The hardlink short-circuit: remove_file, then hard_link to the representative.
DiffLink(p) ==
    /\ DiffEntry(p)
    /\ RelPath(p) \in orig_files
    /\ HasRepresentative(p)
    /\ visited' = visited \cup {p}
    /\ orig_files' = orig_files \ {RelPath(p)}
    /\ save' = ParentSave(save, fs, p)
    /\ LET removed == RemoveFile(fs, p) IN
       IF Exists(removed, OtherPath(p))
       THEN /\ fs' = HardLink(removed, Resolve(OtherPath(p)), p)
            /\ fstate' = [fstate EXCEPT ![p] = "Linked"]
            /\ UNCHANGED <<pc, err, errPath>>
       ELSE /\ fs' = removed
            /\ fstate' = [fstate EXCEPT ![p] = "Matched"]
            /\ pc' = "d_failed"
            /\ err' = "io"
            /\ errPath' = p
    /\ UNCHANGED <<envVars, manifest, dmt0, pgroup, slot, changes, keep_files,
                   applyVars>>

\* Mutant: the decoded bytes are not compared with the new content.
DiffOutcomeUnchecked(new, old) ==
    IF old = new THEN "Empty"
    ELSE LET delta == Encode(new, old) IN
         IF delta = FAIL THEN "XDelta3EncodeError"
         ELSE IF Decode(delta, old) = FAIL THEN "AsIs" ELSE "Patched"

\* Mutant: a failed encode falls back to AsIs instead of aborting.
DiffOutcomeFallback(new, old) ==
    IF old = new THEN "Empty"
    ELSE LET delta == Encode(new, old) IN
         IF delta = FAIL THEN "AsIs"
         ELSE LET deflated == Decode(delta, old) IN
              IF deflated = FAIL THEN "AsIs"
              ELSE IF deflated # new THEN "XDelta3FailedValidation"
              ELSE "Patched"

\* Mutant: a decode that returns nothing is taken for a validated patch.
DiffOutcomeDecodeIgnored(new, old) ==
    IF old = new THEN "Empty"
    ELSE LET delta == Encode(new, old) IN
         IF delta = FAIL THEN "XDelta3EncodeError"
         ELSE LET deflated == Decode(delta, old) IN
              IF deflated = FAIL THEN "Patched"
              ELSE IF deflated # new THEN "XDelta3FailedValidation"
              ELSE "Patched"

\* Lines 221-249: how a matched file that is not short-circuited is classified.
DiffOutcome(new, old) ==
    IF old = new THEN "Empty"
    ELSE LET delta == Encode(new, old) IN
         IF delta = FAIL THEN "XDelta3EncodeError"
         ELSE LET deflated == Decode(delta, old) IN
              IF deflated = FAIL THEN "AsIs"
              ELSE IF deflated # new THEN "XDelta3FailedValidation"
              ELSE "Patched"

Fatal(outcome) == outcome \in {"XDelta3EncodeError", "XDelta3FailedValidation"}

\* The bytes diff leaves in the file.
DeltaBytes(outcome, new, old) ==
    CASE outcome = "Empty" -> 0
      [] outcome = "Patched" -> Encode(new, old)
      [] OTHER -> new

\* Mutant: the file is overwritten without being removed first.
ReplaceInPlace(f, p, data, m) == set_meta_data(WriteFile(f, p, data), p, m)

\* remove_file, write, set_meta_data.
Replace(f, p, data, m) == set_meta_data(WriteFile(RemoveFile(f, p), p, data), p, m)

\* Mutant: the two tags are swapped.
PushChangesSwapped(ch, outcome, p) ==
    CASE outcome = "Patched" -> Append(ch, <<"AsIs", p>>)
      [] outcome = "AsIs" -> Append(ch, <<"XDelta3", p>>)
      [] OTHER -> ch

PushChanges(ch, outcome, p) ==
    CASE outcome = "Patched" -> Append(ch, <<"XDelta3", p>>)
      [] outcome = "AsIs" -> Append(ch, <<"AsIs", p>>)
      [] OTHER -> ch

\* Mutant: no `continue` after a patch is recorded, so the path is kept too.
PushKeepAlways(k, outcome, p) ==
    IF outcome \in {"Empty", "Patched"} THEN Append(k, p) ELSE k

PushKeep(k, outcome, p) == IF outcome = "Empty" THEN Append(k, p) ELSE k

\* A matched file with no representative yet: compare, encode, check, rewrite.
DiffCompare(p) ==
    /\ DiffEntry(p)
    /\ RelPath(p) \in orig_files
    /\ ~HasRepresentative(p)
    /\ visited' = visited \cup {p}
    /\ orig_files' = orig_files \ {RelPath(p)}
    /\ save' = ParentSave(save, fs, p)
    /\ slot' = IF pgroup[p] # 0 THEN [slot EXCEPT ![pgroup[p]] = TargetPath(p)] ELSE slot
    /\ LET old_content == src[p]
           meta_data == get_meta_data(fs, p)
           new_content == Content(fs, p)
           outcome == DiffOutcome(new_content, old_content)
       IN IF Fatal(outcome)
          THEN /\ pc' = "d_failed"
               /\ err' = outcome
               /\ errPath' = p
               /\ fstate' = [fstate EXCEPT ![p] = "Matched"]
               /\ UNCHANGED <<fs, changes, keep_files>>
          ELSE /\ fs' = Replace(fs, p, DeltaBytes(outcome, new_content, old_content),
                                meta_data)
               /\ changes' = PushChanges(changes, outcome, RelPath(p))
               /\ keep_files' = PushKeep(keep_files, outcome, RelPath(p))
               /\ fstate' = [fstate EXCEPT ![p] = outcome]
               /\ UNCHANGED <<pc, err, errPath>>
    /\ UNCHANGED <<envVars, manifest, dmt0, pgroup, applyVars>>

\* Mutant: the rewrite loop is left after its first file.
WalkDoneEarly == visited # {}

WalkDone == \A p \in Files : IsFile(fs, p) => p \in visited

\* filetime::set_file_times for every recorded parent.
RestoreMtimes(f, s) ==
    [f EXCEPT !.dmt = [d \in Dirs |-> IF s[d] # NoTime THEN s[d] ELSE f.dmt[d]]]

DiffRestoreMtimes ==
    /\ pc = "d_walk"
    /\ WalkDone
    /\ fs' = RestoreMtimes(fs, save)
    /\ pc' = "d_meta"
    /\ UNCHANGED <<envVars, manifest, dmt0, err, errPath, save, diffVars, applyVars>>

\* File::create at the tree root: a new entry, so the root's mtime moves.
CreateManifest(f) == [f EXCEPT !.dmt[<< >>] = f.now, !.now = f.now + 1]

\* serialize_to_json(&md, target_delta_dir/__deltaimage.meta.json)
DiffWriteManifest ==
    /\ pc = "d_meta"
    /\ manifest' = [present |-> TRUE, keep_files |-> keep_files, changes |-> changes]
    /\ fs' = CreateManifest(fs)
    /\ pc' = "d_done"
    /\ UNCHANGED <<envVars, dmt0, err, errPath, save, diffVars, applyVars>>

Diff ==
    \/ DiffScanSource
    \/ DiffGroupLinks
    \/ \E p \in Files : DiffUntouched(p)
    \/ \E p \in Files : DiffLink(p)
    \/ \E p \in Files : DiffCompare(p)
    \/ DiffRestoreMtimes
    \/ DiffWriteManifest

(********************************* apply ***********************************)

\* The orders a depth-first walk can list the files in.
WalkOrders ==
    {o \in [1..Cardinality(Files) -> Files] :
        /\ \A i, j \in DOMAIN o : i # j => o[i] # o[j]
        /\ \A d \in Dirs \ {<< >>} : \A i, j, k \in DOMAIN o :
              (i < j /\ j < k /\ InSubtree(o[i], d) /\ InSubtree(o[k], d))
              => InSubtree(o[j], d)}

\* The delta tree is damaged on its way to apply: the patch file of one XDELTA
\* entry arrives truncated to nothing, which is what apply then reads.
CorruptDelta(p) ==
    /\ pc = "d_done"
    /\ tampered = NoPath
    /\ \E i \in DOMAIN manifest.changes : manifest.changes[i] = <<"XDelta3", p>>
    /\ fs' = [fs EXCEPT !.ino[fs.dent[p]].content = 0]
    /\ tampered' = p
    /\ UNCHANGED <<src, target_dir, fault, pre, manifest, dmt0, pc, err, errPath,
                   save, diffVars, applyVars>>

Damage == \E p \in Files : CorruptDelta(p)

\* Phase 1: deserialize_from_json; md.changes collected into a BTreeSet.
ApplyReadManifest ==
    /\ pc = "d_done"
    /\ manifest.present
    /\ md' = manifest
    /\ a_changes' = {manifest.changes[i] : i \in DOMAIN manifest.changes}
    /\ save' = [x \in Dirs |-> NoTime]
    /\ dmt0' = fs.dmt
    /\ kidx' = 1
    /\ recreated' = {}
    /\ pc' = "a_group"
    /\ UNCHANGED <<envVars, fs, manifest, err, errPath, diffVars, groups, gtodo>>

\* The members of inode i's group, in the order the walk met them.
GroupList(f, ord, i) ==
    LET Member(q) == IsFile(f, q) /\ f.dent[q] = i /\ InLinkGroup(f, q)
    IN SelectSeq(ord, Member)

\* Phase 2: every path of every inode with two links or more.
ApplyGroupLinks ==
    /\ pc = "a_group"
    /\ \E ord \in WalkOrders :
          /\ groups' = [i \in InoIds |-> GroupList(fs, ord, i)]
          /\ gtodo' = {i \in InoIds : GroupList(fs, ord, i) # << >>}
    /\ pc' = "a_run"
    /\ UNCHANGED <<envVars, fs, manifest, dmt0, err, errPath, save, diffVars, md,
                   a_changes, kidx, recreated>>

\* Mutant: the entry of the least path first, whatever its tag.
FirstChangeByPath(cs) == CHOOSE x \in cs : \A y \in cs \ {x} : PathLess(x[2], y[2])

\* BTreeSet::into_iter: the least entry first.
FirstChange(cs) == CHOOSE x \in cs : \A y \in cs \ {x} : ChangeLess(x, y)

\* Mutant: a patch that does not decode is taken as the content itself.
InflateLenient(algo, patch_data, orig) ==
    IF algo = "XDelta3" /\ Decode(patch_data, orig) # FAIL
    THEN Decode(patch_data, orig) ELSE patch_data

\* Lines 375-380.
Inflate(algo, patch_data, orig) ==
    IF algo = "XDelta3" THEN Decode(patch_data, orig) ELSE patch_data

\* Lines 390-393: get_meta_data, remove_file, write, set_meta_data.
Recreate(f, p, data) == Replace(f, p, data, get_meta_data(f, p))

\* Phase 3, one entry of changes.
ApplyChange ==
    /\ pc = "a_run"
    /\ a_changes # {}
    /\ LET e == FirstChange(a_changes)
           relative_path == e[2]
           readable == src[relative_path] # NoFile /\ IsFile(fs, relative_path)
           deflated == IF readable
                       THEN Inflate(e[1], Content(fs, relative_path), src[relative_path])
                       ELSE FAIL
       IN /\ a_changes' = a_changes \ {e}
          /\ IF ~readable
             THEN /\ pc' = "a_failed" /\ err' = "io" /\ errPath' = relative_path
                  /\ UNCHANGED <<fs, save, recreated>>
             ELSE IF deflated = FAIL
             THEN /\ pc' = "a_failed" /\ err' = "XDelta3FailedDeflation"
                  /\ errPath' = relative_path
                  /\ save' = ParentSave(save, fs, relative_path)
                  /\ UNCHANGED <<fs, recreated>>
             ELSE /\ fs' = Recreate(fs, relative_path, deflated)
                  /\ save' = ParentSave(save, fs, relative_path)
                  /\ recreated' = recreated \cup {relative_path}
                  /\ UNCHANGED <<pc, err, errPath>>
    /\ UNCHANGED <<envVars, manifest, dmt0, diffVars, md, kidx, groups, gtodo>>

\* Lines 422-424: get_meta_data, write (no remove_file), set_meta_data.
Refill(f, p, data) == set_meta_data(WriteFile(f, p, data), p, get_meta_data(f, p))

\* Phase 4, one entry of keep_files.
ApplyKeep ==
    /\ pc = "a_run"
    /\ a_changes = {}
    /\ kidx <= Len(md.keep_files)
    /\ LET relative_path == md.keep_files[kidx]
           readable == src[relative_path] # NoFile /\ IsFile(fs, relative_path)
       IN /\ kidx' = kidx + 1
          /\ IF ~readable
             THEN /\ pc' = "a_failed" /\ err' = "io" /\ errPath' = relative_path
                  /\ UNCHANGED <<fs, save, recreated>>
             ELSE /\ fs' = Refill(fs, relative_path, src[relative_path])
                  /\ save' = ParentSave(save, fs, relative_path)
                  /\ recreated' = recreated \cup {relative_path}
                  /\ UNCHANGED <<pc, err, errPath>>
    /\ UNCHANGED <<envVars, manifest, dmt0, diffVars, md, a_changes, groups, gtodo>>

\* Mutant: the first listed member stands for the group, recreated or not.
RepresentativeFirstListed(linkgroup, rec) ==
    IF \E i \in DOMAIN linkgroup : linkgroup[i] \in rec THEN linkgroup[1] ELSE NoPath

\* The first member of the list that was recreated, or NoPath.
Representative(linkgroup, rec) ==
    IF \E i \in DOMAIN linkgroup : linkgroup[i] \in rec
    THEN linkgroup[CHOOSE i \in DOMAIN linkgroup :
                      /\ linkgroup[i] \in rec
                      /\ \A j \in DOMAIN linkgroup : j < i => linkgroup[j] \notin rec]
    ELSE NoPath

\* Mutant: hard_link with its arguments swapped, after removing the
\* representative instead of the other member.
RECURSIVE RelinkOthersBackwards(_, _, _)
RelinkOthersBackwards(st, path, others) ==
    IF others = << >> THEN st
    ELSE LET other_path == Head(others) IN
         IF other_path = path THEN RelinkOthersBackwards(st, path, Tail(others))
         ELSE RelinkOthersBackwards(
                [f |-> HardLink(RemoveFile(st.f, path), other_path, path),
                 s |-> ParentSave(st.s, st.f, other_path)],
                path, Tail(others))

\* Lines 438-458: every other member is removed and linked to `path`.
RECURSIVE RelinkOthers(_, _, _)
RelinkOthers(st, path, others) ==
    IF others = << >> THEN st
    ELSE LET other_path == Head(others) IN
         IF other_path = path THEN RelinkOthers(st, path, Tail(others))
         ELSE RelinkOthers(
                [f |-> HardLink(RemoveFile(st.f, other_path), path, other_path),
                 s |-> ParentSave(st.s, st.f, other_path)],
                path, Tail(others))

\* Phase 5, one group.
ApplyRelink(g) ==
    /\ pc = "a_run"
    /\ a_changes = {}
    /\ kidx > Len(md.keep_files)
    /\ g \in gtodo
    /\ gtodo' = gtodo \ {g}
    /\ LET path == Representative(groups[g], recreated)
           st == IF path = NoPath THEN [f |-> fs, s |-> save]
                 ELSE RelinkOthers([f |-> fs, s |-> save], path, groups[g])
       IN fs' = st.f /\ save' = st.s
    /\ UNCHANGED <<envVars, manifest, dmt0, pc, err, errPath, diffVars, md, a_changes,
                   kidx, groups, recreated>>

ApplyRestoreMtimes ==
    /\ pc = "a_run"
    /\ a_changes = {}
    /\ kidx > Len(md.keep_files)
    /\ gtodo = {}
    /\ fs' = RestoreMtimes(fs, save)
    /\ pc' = "a_meta"
    /\ UNCHANGED <<envVars, manifest, dmt0, err, errPath, save, diffVars, applyVars>>

\* unlink of the manifest at the tree root: the root's mtime moves.
RemoveManifest(f) == [f EXCEPT !.dmt[<< >>] = f.now, !.now = f.now + 1]

\* std::fs::remove_file(delta_target_dir/__deltaimage.meta.json)
ApplyRemoveManifest ==
    /\ pc = "a_meta"
    /\ manifest' = NoManifest
    /\ fs' = RemoveManifest(fs)
    /\ pc' = "a_done"
    /\ UNCHANGED <<envVars, dmt0, err, errPath, save, diffVars, applyVars>>

Apply ==
    \/ ApplyReadManifest
    \/ ApplyGroupLinks
    \/ ApplyChange
    \/ ApplyKeep
    \/ \E g \in InoIds : ApplyRelink(g)
    \/ ApplyRestoreMtimes
    \/ ApplyRemoveManifest

Next == Diff \/ Damage \/ Apply

Spec == Init /\ [][Next]_vars

\* The same engine started on the trees with two link groups.
SpecGroups == InitGroups /\ [][Next]_vars

(******************************* properties ********************************)

TargetOnly(p) == IsFile(pre, p) /\ src[p] = NoFile
MatchedFile(p) == IsFile(pre, p) /\ src[p] # NoFile
Intact == tampered = NoPath
DiffRunning ==
    /\ Intact
    /\ pc \in {"d_scan", "d_group", "d_walk", "d_meta", "d_done", "d_failed"}
Aborted == pc \in {"d_failed", "a_failed"}
PathsOf(ch) == {ch[i][2] : i \in DOMAIN ch}
Range(k) == {k[i] : i \in DOMAIN k}
GoodCodec == fault = "none"

SameFile(p) ==
    /\ IsFile(fs, p)
    /\ Content(fs, p) = Content(pre, p)
    /\ MetaOf(fs, p) = MetaOf(pre, p)

\* C1 (as claimed): with a codec that never fails and round-trips, and the
\* delta tree reaching apply as diff left it, diff then
\* apply both succeed and leave exactly the paths of T, files and directories,
\* with the content and metadata they had before diff, and no manifest.
C1_RoundTripLaw ==
    (GoodCodec /\ Intact) =>
        /\ ~Aborted
        /\ pc = "a_done" =>
              /\ \A p \in Files : IsFile(fs, p) = IsFile(pre, p)
              /\ \A p \in Files : IsFile(pre, p) => SameFile(p)
              /\ \A d \in Dirs : fs.dmt[d] = pre.dmt[d]
              /\ ~manifest.present

\* What does hold of the round trip: with target_dir absolute, the files and
\* every directory but the root come back as they were.
RoundTripOfFiles ==
    (GoodCodec /\ Intact /\ IsAbsolute(target_dir)) =>
        /\ ~Aborted
        /\ pc = "a_done" =>
              /\ \A p \in Files : IsFile(fs, p) = IsFile(pre, p)
              /\ \A p \in Files : IsFile(pre, p) => SameFile(p)
              /\ \A d \in Dirs \ {<< >>} : fs.dmt[d] = pre.dmt[d]
              /\ ~manifest.present

SharedBefore(p, q) == p # q /\ IsFile(pre, p) /\ pre.dent[p] = pre.dent[q]

\* C2 (as claimed): any two paths that shared an inode before diff share one
\* after diff and apply.
C2_HardlinkPreservationAll ==
    pc = "a_done" =>
        \A p, q \in Files : SharedBefore(p, q) => fs.dent[p] = fs.dent[q]

\* C2 (amended): two paths that shared an inode before diff, and are both
\* regular files of the source tree or both absent from it, share one inode
\* after diff and apply.
C2_HardlinkPreservation ==
    pc = "a_done" =>
        \A p, q \in Files :
            (SharedBefore(p, q) /\ (src[p] = NoFile) = (src[q] = NoFile))
            => fs.dent[p] = fs.dent[q]

C2_Witness ==
    /\ pc = "a_done"
    /\ \E p, q \in Files :
          /\ SharedBefore(p, q) /\ src[p] # NoFile /\ src[q] # NoFile
          /\ recreated \cap {p, q} # {}
          /\ fs.dent[p] = fs.dent[q]

\* C3 (as claimed): when a pass returns, every directory in which it created,
\* removed or replaced a child, the root (where the manifest lives) included,
\* has the mtime it had when the pass started.
C3_ParentMtimeInvariance ==
    pc \in {"d_done", "a_done"} => \A d \in Dirs : fs.dmt[d] = dmt0[d]

\* C4: a regular file of the target that is no regular file of the source keeps
\* its content through diff and apply, keeps its metadata through diff, and is
\* in neither keep_files nor changes.
C4_TargetOnlyPassthrough ==
    \A p \in Files :
        TargetOnly(p) =>
            /\ IsFile(fs, p)
            /\ Content(fs, p) = Content(pre, p)
            /\ DiffRunning => (MetaOf(fs, p) = MetaOf(pre, p)
                               /\ fs.dent[p] = pre.dent[p])
            /\ p \notin Range(keep_files) \cup PathsOf(changes)
            /\ p \notin Range(manifest.keep_files) \cup PathsOf(manifest.changes)

\* A target-only file that shared its inode with a rewritten file, after apply.
C4_Witness ==
    /\ pc = "a_done"
    /\ \E p, q \in Files :
          TargetOnly(p) /\ SharedBefore(p, q) /\ q \in recreated

\* The file at p went through the content comparison (it was matched and not
\* short-circuited), whether or not diff survived it.
Compared(p) ==
    \/ fstate[p] \in {"Empty", "Patched", "AsIs"}
    \/ fstate[p] = "Matched" /\ err # "io"

\* The file at p took the hardlink short-circuit.
ShortCircuited(p) ==
    \/ fstate[p] = "Linked"
    \/ fstate[p] = "Matched" /\ err = "io"

Untouched(p) == SameFile(p) /\ fs.dent[p] = pre.dent[p]

\* decode(encode(new, old), old) succeeds with other bytes than new.
Trap(p) ==
    /\ MatchedFile(p)
    /\ Content(pre, p) # src[p]
    /\ Encode(Content(pre, p), src[p]) # FAIL
    /\ Decode(Encode(Content(pre, p), src[p]), src[p]) \notin {FAIL, Content(pre, p)}

\* C5: when the round-trip check of a changed matched file returns other bytes,
\* diff has failed with the validation error at that file, the file is as it
\* was, no (XDELTA, p) is recorded and no manifest is written.
C5_ValidationTrap ==
    \A p \in Files :
        (Trap(p) /\ Compared(p)) =>
            /\ pc = "d_failed"
            /\ err = "XDelta3FailedValidation"
            /\ errPath = p
            /\ Untouched(p)
            /\ <<"XDelta3", p>> \notin Range(changes)
            /\ ~manifest.present

\* The trap springs after an earlier file was already rewritten.
C5_Witness ==
    /\ pc = "d_failed"
    /\ err = "XDelta3FailedValidation"
    /\ Trap(errPath)
    /\ changes # << >>

EncodeFails(p) ==
    /\ MatchedFile(p)
    /\ Content(pre, p) # src[p]
    /\ Encode(Content(pre, p), src[p]) = FAIL

C7_ManifestSets ==
    manifest.present =>
        LET K == Range(manifest.keep_files)
            C == PathsOf(manifest.changes)
        IN /\ \A p \in K \cup C : MatchedFile(p)
           /\ Cardinality(K) = Len(manifest.keep_files)
           /\ Cardinality(C) = Len(manifest.changes)
           /\ K \cap C = {}
           /\ \A p \in K \cup C : ~TargetOnly(p)

C7_Witness ==
    /\ manifest.present
    /\ manifest.keep_files # << >>
    /\ manifest.changes # << >>
    /\ \E p \in Files : TargetOnly(p)

\* C8: a path is in keep_files only if the target's content there equalled the
\* source's, and after diff it is a zero-byte file with the target's metadata.
C8_KeepFiles ==
    /\ \A p \in Range(keep_files) : MatchedFile(p) /\ Content(pre, p) = src[p]
    /\ DiffRunning =>
          \A p \in Range(keep_files) :
              /\ IsFile(fs, p)
              /\ Content(fs, p) = 0
              /\ MetaOf(fs, p) = MetaOf(pre, p)

\* A kept file that was not empty and carried a setuid or setgid bit.
C8_Witness ==
    /\ pc = "d_done"
    /\ \E p \in Range(manifest.keep_files) :
          Content(pre, p) # 0 /\ MetaOf(pre, p).mode >= 1024

\* C9: after diff, the file of every (algo, p) of changes has the target's
\* metadata and reconstructs, against the source file, to the target's content;
\* an XDELTA entry holds the patch whose decode returned exactly that content.
C9_ChangedFiles ==
    DiffRunning =>
        \A e \in Range(changes) :
            LET p == e[2] IN
            /\ MatchedFile(p)
            /\ IsFile(fs, p)
            /\ MetaOf(fs, p) = MetaOf(pre, p)
            /\ Inflate(e[1], Content(fs, p), src[p]) = Content(pre, p)
            /\ e[1] = "XDelta3" =>
                  /\ Content(fs, p) = Encode(Content(pre, p), src[p])
                  /\ Decode(Content(fs, p), src[p]) = Content(pre, p)
            /\ e[1] = "AsIs" => Content(fs, p) = Content(pre, p)

\* A finished diff that recorded a patch and a verbatim file.
C9_Witness ==
    /\ pc = "d_done"
    /\ \E x, y \in Range(manifest.changes) : x[1] = "XDelta3" /\ y[1] = "AsIs"

RepresentativeOf(p) == CHOOSE r \in Files : slot[pgroup[p]] = TargetPath(r)

\* C10 (as claimed): however target_dir is written, a matched file whose group
\* already has a representative becomes a hard link to it, diff does not fail
\* there, and the file is recorded in neither list.
C10_ShortCircuit ==
    \A p \in Files :
        (DiffRunning /\ ShortCircuited(p)) =>
            /\ errPath # p
            /\ IsFile(fs, p)
            /\ fs.dent[p] = fs.dent[RepresentativeOf(p)]
            /\ p \notin PathsOf(changes) \cup Range(keep_files)

\* What does hold of the short-circuit: the same, for an absolute target_dir.
ShortCircuitWhenAbsolute == IsAbsolute(target_dir) => C10_ShortCircuit

(* ------------------------------ C11 ------------------------------------ *)

\* The matched members of link group g the rewrite walk has reached so far.
SeenOf(g) == {p \in Files : pgroup[p] = g /\ MatchedFile(p) /\ p \in visited}

\* The path the representative slot of group g names.
SlotFile(g) == CHOOSE r \in Files : slot[g] = TargetPath(r)

\* C11: the representative of a link group is the first of its members, in the
\* order of the rewrite walk, that is a regular file of the source: the slot is
\* empty until the walk reaches a matched member, that member fills it and goes
\* through the comparison, the slot never changes afterwards, and every matched
\* member reached later takes the short-circuit whatever its content. After a
\* successful diff the representative is the one member of the group the
\* manifest records and every other matched member is a link to it.
C11_FirstSeenWins ==
    /\ [](\A g \in InoIds :
            /\ slot[g] = NoPath => SeenOf(g) = {}
            /\ slot[g] # NoPath =>
                  /\ SlotFile(g) \in SeenOf(g)
                  /\ Compared(SlotFile(g))
                  /\ \A q \in SeenOf(g) \ {SlotFile(g)} : ShortCircuited(q))
    /\ [][\A g \in InoIds : slot[g] # NoPath => slot'[g] = slot[g]]_vars
    /\ [](pc = "d_done" =>
            \A g \in InoIds :
                SeenOf(g) # {} =>
                    /\ SeenOf(g) \cap (Range(manifest.keep_files)
                                       \cup PathsOf(manifest.changes))
                          = {SlotFile(g)}
                    /\ \A q \in SeenOf(g) :
                          /\ fs.dent[q] = fs.dent[SlotFile(g)]
                          /\ q # SlotFile(g) => fstate[q] = "Linked")

\* A finished diff whose group d/b, d/c is represented by d/c, the later path,
\* with d/b, although its content differs from the source's, linked to it.
C11_Witness ==
    /\ pc = "d_done"
    /\ pgroup[<<"d", "b">>] # 0
    /\ slot[pgroup[<<"d", "b">>]] = TargetPath(<<"d", "c">>)
    /\ fstate[<<"d", "b">>] = "Linked"
    /\ src[<<"d", "b">>] # Content(pre, <<"d", "b">>)

(* ------------------------------ C12 ------------------------------------ *)

\* encode of the file at p succeeds and decode of its patch returns nothing.
DecodeFails(p) ==
    /\ MatchedFile(p)
    /\ Content(pre, p) # src[p]
    /\ Encode(Content(pre, p), src[p]) # FAIL
    /\ Decode(Encode(Content(pre, p), src[p]), src[p]) = FAIL

\* C12: when the round-trip decode of a compared file returns nothing, diff does
\* not stop there: the file then holds the target's bytes verbatim under the
\* snapshot metadata, (ASIS, p) is recorded, and p is neither in keep_files nor
\* recorded as an XDELTA entry.
C12_DecodeFailRecoverable ==
    \A p \in Files :
        (DiffRunning /\ DecodeFails(p) /\ Compared(p)) =>
            /\ errPath # p
            /\ fstate[p] = "AsIs"
            /\ IsFile(fs, p)
            /\ Content(fs, p) = Content(pre, p)
            /\ MetaOf(fs, p) = MetaOf(pre, p)
            /\ <<"AsIs", p>> \in Range(changes)
            /\ <<"XDelta3", p>> \notin Range(changes)
            /\ p \notin Range(keep_files)

\* A finished diff in which the decode of a setuid file's patch had failed.
C12_Witness ==
    /\ pc = "d_done"
    /\ \E p \in Files :
          /\ DecodeFails(p) /\ Compared(p)
          /\ MetaOf(pre, p).mode >= 1024
          /\ <<"AsIs", p>> \in Range(manifest.changes)

(* ------------------------------ C13 ------------------------------------ *)

\* The step takes entry e out of the changes still to be processed.
Takes(e) == e \in a_changes /\ a_changes' = a_changes \ {e}

\* C13 (as claimed): apply processes the entries of changes in ascending order
\* of relative path whatever their tags: when an entry is processed, every
\* entry still waiting has a greater path.
C13_PathOrder ==
    [][\A e \in a_changes :
          Takes(e) => \A y \in a_changes' : PathLess(e[2], y[2])]_vars

\* C13 (amended): the entries are processed in ascending order of (tag, path)
\* with XDELTA before ASIS: every XDELTA entry in path order, then every ASIS
\* entry in path order, one entry at a time.
C13_TagThenPathOrder ==
    [][\A e \in a_changes :
          Takes(e) =>
              \A y \in a_changes' :
                  \/ e[1] = "XDelta3" /\ y[1] = "AsIs"
                  \/ e[1] = y[1] /\ PathLess(e[2], y[2])]_vars

\* The patch of a greater path has been applied while a verbatim entry of a
\* smaller path is still waiting.
C13_Witness ==
    /\ pc = "a_run"
    /\ \E x \in a_changes : \E p \in recreated :
          /\ x[1] = "AsIs"
          /\ <<"XDelta3", p>> \in Range(md.changes)
          /\ PathLess(x[2], p)

(* ------------------------------ C14 ------------------------------------ *)

\* The directory mtimes diff recorded are in force.
MtimesRestored == \A d \in Dirs : save[d] # NoTime => fs.dmt[d] = save[d]

\* C14 (as claimed): diff writes the manifest before it restores the recorded
\* parent-directory mtimes: the restore never runs without the manifest in
\* place, and it is the last mutation, so that a finished diff leaves every
\* recorded directory with its recorded mtime.
C14_ManifestBeforeRestore ==
    /\ pc = "d_meta" => manifest.present
    /\ pc = "d_done" => MtimesRestored

(* ------------------------------ C15 ------------------------------------ *)

\* apply finds, at the XDELTA entry e, a patch whose decode returns nothing.
DeflateFails(e) ==
    /\ e[1] = "XDelta3"
    /\ src[e[2]] # NoFile
    /\ IsFile(fs, e[2])
    /\ Decode(Content(fs, e[2]), src[e[2]]) = FAIL

\* C15: when the decode of an XDELTA entry (XDELTA, p) fails, apply stops there
\* with XDelta3FailedDeflation and rolls nothing back: the step leaves the whole
\* tree as it found it (the file at p, the files of the entries still waiting,
\* the files already reconstructed), nothing runs afterwards, so that no link is
\* re-established, no directory mtime is restored and the manifest stays.
C15_ApplyDecodeFatal ==
    /\ [][\A e \in a_changes :
            (Takes(e) /\ DeflateFails(e)) =>
                /\ pc' = "a_failed"
                /\ err' = "XDelta3FailedDeflation"
                /\ errPath' = e[2]
                /\ fs' = fs
                /\ manifest' = manifest
                /\ recreated' = recreated
                /\ gtodo' = gtodo]_vars
    /\ [][pc # "a_failed"]_vars
    /\ []((pc = "a_failed" /\ err = "XDelta3FailedDeflation") =>
            /\ manifest.present
            /\ IsFile(fs, errPath) /\ errPath \notin recreated
            /\ Decode(Content(fs, errPath), src[errPath]) = FAIL
            /\ \A p \in recreated :
                  /\ SameFile(p)
                  /\ fs.dmt[Parent(p)] # save[Parent(p)]
            /\ \A y \in a_changes : y[2] \notin recreated
            /\ gtodo = {g \in InoIds : groups[g] # << >>})

\* apply stopped at a damaged patch after it had reconstructed a file and with
\* an entry still waiting.
C15_Witness ==
    /\ pc = "a_failed"
    /\ err = "XDelta3FailedDeflation"
    /\ recreated # {}
    /\ a_changes # {}

(* ------------------------------ C16 ------------------------------------ *)

\* The members of the collected group g that apply has recreated.
RecreatedOf(g) == {p \in Range(groups[g]) : p \in recreated}

\* The step handles group g in the relink phase.
Relinks(g) == g \in gtodo /\ gtodo' = gtodo \ {g}

\* C16: a group collected before reconstruction of which no member was recreated
\* is left alone by the relink phase: no member is removed, relinked or
\* touched. Of any other group one recreated member is the representative: it
\* keeps its inode, every other member becomes a hard link to it, and when
\* apply ends every member has the reconstructed content and metadata.
C16_RelinkGroups ==
    /\ [][\A g \in InoIds :
            Relinks(g) =>
                IF RecreatedOf(g) = {}
                THEN fs' = fs /\ save' = save
                ELSE \E r \in RecreatedOf(g) :
                        /\ fs'.dent[r] = fs.dent[r]
                        /\ fs'.ino[fs.dent[r]] = fs.ino[fs.dent[r]]
                        /\ \A q \in Range(groups[g]) :
                              fs'.dent[q] = fs.dent[r]]_vars
    /\ [](pc = "a_done" =>
            \A g \in InoIds :
                RecreatedOf(g) # {} =>
                    \A q, r \in Range(groups[g]) :
                        fs.dent[q] = fs.dent[r] /\ SameFile(q))

\* A finished apply with a group whose first listed member was not recreated
\* and whose second one was reconstructed from an entry of changes.
C16_Witness ==
    /\ pc = "a_done"
    /\ \E g \in InoIds :
          /\ Len(groups[g]) >= 2
          /\ groups[g][1] \notin recreated
          /\ groups[g][2] \in recreated \cap PathsOf(md.changes)

(* ------------------------------ C17 ------------------------------------ *)

Classes == {"Linked", "Empty", "Patched", "AsIs"}

\* C17: every file is Untouched until the rewrite walk reaches it; a file that
\* is also in the source then leaves Untouched once and for all, through Matched
\* into exactly one class, staying Matched only where diff aborts on it; the
\* class shows in the lists (Empty in keep_files, Patched and AsIs under their
\* tag in changes, Linked in neither); a classified file keeps its class, its
\* inode, its bytes and its metadata for the rest of the diff; files that are
\* not in the source stay Untouched; a finished diff has classified every
\* matched file.
C17_FileStateMachine ==
    /\ [](\A p \in Files :
            /\ fstate[p] \in {"Untouched", "Matched"} \cup Classes
            /\ ~MatchedFile(p) => fstate[p] = "Untouched"
            /\ p \notin visited => fstate[p] = "Untouched"
            /\ fstate[p] = "Matched" => pc = "d_failed" /\ errPath = p
            /\ fstate[p] = "Empty" <=> p \in Range(keep_files)
            /\ fstate[p] = "Patched" <=> <<"XDelta3", p>> \in Range(changes)
            /\ fstate[p] = "AsIs" <=> <<"AsIs", p>> \in Range(changes)
            /\ fstate[p] = "Linked" => p \notin PathsOf(changes))
    /\ [][\A p \in Files :
            /\ fstate'[p] # fstate[p] =>
                  /\ fstate[p] = "Untouched"
                  /\ MatchedFile(p)
                  /\ p \notin visited /\ p \in visited'
            /\ (fstate[p] \in Classes /\ DiffRunning') =>
                  /\ fs'.dent[p] = fs.dent[p]
                  /\ fs'.ino[fs'.dent[p]] = fs.ino[fs.dent[p]]]_vars
    /\ [](pc = "d_done" => \A p \in Files : MatchedFile(p) => fstate[p] \in Classes)

\* A finished diff with a linked file, a patched file and a target-only file.
C17_Witness ==
    /\ pc = "d_done"
    /\ \E p, q, r \in Files :
          fstate[p] = "Linked" /\ fstate[q] = "Patched" /\ TargetOnly(r)

(* ------------------------------ C18 ------------------------------------ *)

ApplyRunning == pc \in {"a_group", "a_run", "a_meta"}

\* C18: the manifest appears only by the last step of a diff that has walked
\* every file of the tree and classified every matched one, so an aborted diff
\* leaves none; apply reads it in its first step, which changes nothing in the
\* tree, works from what it read, and removes it by its last step: the manifest
\* is still there after an aborted apply and gone after a successful one.
C18_ManifestLifecycle ==
    /\ [](manifest.present =>
            /\ pc \in {"d_done", "a_failed"} \/ ApplyRunning
            /\ \A p \in Files : IsFile(pre, p) => p \in visited
            /\ \A p \in Files : MatchedFile(p) => fstate[p] \in Classes)
    /\ [](~manifest.present =>
            pc \in {"d_scan", "d_group", "d_walk", "d_meta", "d_failed", "a_done"})
    /\ []((ApplyRunning \/ pc = "a_failed") => md = manifest)
    /\ [][/\ (~manifest.present /\ manifest'.present) =>
                pc = "d_meta" /\ pc' = "d_done"
          /\ (pc = "d_done" /\ pc' # "d_done") =>
                pc' = "a_group" /\ md' = manifest /\ fs' = fs
          /\ (manifest.present /\ ~manifest'.present) =>
                pc = "a_meta" /\ pc' = "a_done"
          /\ pc \notin {"d_failed", "a_done"}]_vars

\* An apply that aborted after it had recreated a file: the manifest is there.
C18_Witness ==
    /\ pc = "a_failed"
    /\ manifest.present
    /\ recreated # {}

(* ------------------------------ C19 ------------------------------------ *)

\* The semantic metadata of an inode.
MetaOfInode(n) ==
    [mtime |-> n.mtime, mode |-> n.mode, uid |-> n.uid, gid |-> n.gid,
     xattrs |-> n.xattrs]

\* The same of a metadata record.
MetaOfRecord(m) ==
    [mtime |-> m.mtime, mode |-> m.mode, uid |-> m.uid, gid |-> m.gid,
     xattrs |-> m.xattrs]

LinkedAfter(p, q) ==
    pre.dent[p] = pre.dent[q] /\ (MatchedFile(p) <=> MatchedFile(q))

\* C20: the tree a successful apply leaves does not depend on the order in
\* which the link groups are relinked, on the order the walk listed their
\* members in, or on which recreated member stands for a group: in every run
\* from the same trees it has the files of the target with the target's bytes
\* and metadata, the same paths sharing an inode, and every directory but the
\* root at the mtime it had when apply started.
C20_ApplyDeterminism ==
    pc = "a_done" =>
        /\ \A p \in Files : IsFile(fs, p) = IsFile(pre, p)
        /\ \A p \in Files : IsFile(pre, p) => SameFile(p)
        /\ \A p, q \in Files :
              (IsFile(pre, p) /\ IsFile(pre, q)) =>
                  (fs.dent[p] = fs.dent[q] <=> LinkedAfter(p, q))
        /\ \A d \in Dirs \ {<< >>} : fs.dmt[d] = dmt0[d]

\* A finished apply that relinked two groups, in one of which the recreated
\* member was listed last.
C20_Witness ==
    /\ pc = "a_done"
    /\ \E g, h \in InoIds :
          /\ g # h
          /\ RecreatedOf(g) # {} /\ RecreatedOf(h) # {}
          /\ Len(groups[g]) = 2 /\ Len(groups[h]) = 2
          /\ groups[g][2] \in recreated \cap PathsOf(md.changes)

(* ------------------------------ C21 ------------------------------------ *)

\* The regular files a tree holds.
PathSet(f) == {p \in Files : IsFile(f, p)}

\* C21 (as claimed): no step of diff or apply takes a file away without putting
\* one back at the same path, so that in every state, and so however the pass
\* ends, the tree holds exactly the paths the target held before diff. (In the
\* model an I/O primitive fails only on a path that does not exist.)
C21_PathSetPreserved == PathSet(fs) = PathSet(pre)

\* What does hold of the path set: the same, for an absolute target_dir,
\* whether the pass ends well, on a codec error or on a damaged patch.
PathSetWhenAbsolute == IsAbsolute(target_dir) => C21_PathSetPreserved

====
